---- MODULE Spec2Model ----
(***************************************************************************)
(* Model of the dungeon crawler's logic (src/logic.cpp): the 2D tile map,  *)
(* the level loader, the player's move, the monsters' pursuit and the      *)
(* map's resize.                                                           *)
(***************************************************************************)
EXTENDS Integers, Sequences, FiniteSets, TLC

VARIABLES
    map,          \* char **map: the grid, a function on <<row, col>>
    mapKind,      \* "null" (nullptr), "grid", or "large" (cells not tracked)
    maxRow,       \* the caller's row count
    maxCol,       \* the caller's column count
    player,       \* Player: [row, col, treasure]
    op,           \* the operation that produced this state
    ret,          \* what that operation returned
    nextRow,      \* doPlayerMove's nextRow argument
    nextCol,      \* doPlayerMove's nextCol argument
    old,          \* the program state the operation started from
    everCaptured, \* some doMonsterAttack call has returned true
    steps,        \* operations applied so far
    source,       \* the level file loadLevel reads
    input,        \* getDirection's input argument
    everTreasure, \* some doPlayerMove call has returned STATUS_TREASURE
    chaseCalls,   \* the doMonsterAttack calls made in a row, up to this state
    chaseFrom     \* the program state that row of calls started from

vars == <<map, mapKind, source, maxRow, maxCol, player, op, ret, nextRow, nextCol, old,
          everCaptured, steps, input, everTreasure, chaseCalls, chaseFrom>>

(***************************************************************************)
(* Bounds of the model.                                                    *)
(***************************************************************************)
\* the most tiles other than Open and Player a starting map holds
MaxItems == 2
\* the most operations in one run
MaxSteps == 2

\* the longest side of a grid whose cells the model tracks
MaxSide == 16

\* the shapes <<rows, cols>> of the starting maps
GridSizes == {<<1, 3>>, <<3, 1>>, <<2, 2>>, <<1, 4>>, <<4, 1>>}

\* <cstdint>
INT32_MAX == 2147483647

\* no level file
NoFile == [open |-> FALSE, hdr |-> <<>>, tiles |-> <<>>]

(***************************************************************************)
(* logic.h: the tiles and the movement outcomes.                           *)
(***************************************************************************)
TILE_OPEN == "Open"
TILE_PLAYER == "Player"
TILE_TREASURE == "Treasure"
TILE_AMULET == "Amulet"
TILE_MONSTER == "Monster"
TILE_PILLAR == "Pillar"
TILE_DOOR == "Door"
TILE_EXIT == "Exit"

Tiles == {TILE_OPEN, TILE_PLAYER, TILE_TREASURE, TILE_AMULET, TILE_MONSTER,
          TILE_PILLAR, TILE_DOOR, TILE_EXIT}

STATUS_STAY == "Stay"
STATUS_MOVE == "Move"
STATUS_TREASURE == "Treasure"
STATUS_AMULET == "Amulet"
STATUS_LEAVE == "Leave"
STATUS_ESCAPE == "Escape"

\* the movement commands
MOVE_UP == "MoveUp"
MOVE_DOWN == "MoveDown"
MOVE_LEFT == "MoveLeft"
MOVE_RIGHT == "MoveRight"

\* an input character that is none of the four
OtherInput == "OtherInput"

Inputs == {MOVE_UP, MOVE_DOWN, MOVE_LEFT, MOVE_RIGHT, OtherInput}

(***************************************************************************)
(* The grid.                                                               *)
(***************************************************************************)
\* the cells of a rows x cols grid
Cells(rows, cols) == (0 .. rows - 1) \X (0 .. cols - 1)

\* r < maxRow && r >= 0 && c < maxCol && c >= 0
InBounds(r, c, rows, cols) == r < rows /\ r >= 0 /\ c < cols /\ c >= 0

\* the model tracks the cells of a rows x cols grid
Tracked(rows, cols) == rows \in 0 .. MaxSide /\ cols \in 0 .. MaxSide

\* createMap's grid: every cell TILE_OPEN
AllOpen(rows, cols) == [rc \in Cells(rows, cols) |-> TILE_OPEN]

(***************************************************************************)
(* resizeMap: the doubled map, sections A to D.                            *)
(***************************************************************************)
\* a faulty variant: the player is copied like any other tile
CopyWithPlayer(t) == t

\* sections B, C, D: the copy of a cell, the player not duplicated
CopyNoPlayer(t) == IF t # TILE_PLAYER THEN t ELSE TILE_OPEN

\* a faulty variant: section D copies column c - maxCol of the row r itself
ResizeCellsSectionD(m, rows, cols) ==
    LET nrl == rows * 2
        ncl == cols * 2
    IN  [rc \in Cells(nrl, ncl) |->
            LET r == rc[1]
                c == rc[2]
            IN  IF r < rows /\ c < cols THEN m[<<r, c>>]
                ELSE IF r < rows THEN CopyNoPlayer(m[<<r, c - cols>>])
                ELSE IF c < cols THEN CopyNoPlayer(m[<<r - rows, c>>])
                ELSE CopyNoPlayer(m[<<(r - rows + 1) % rows, c - cols>>])]

ResizeCells(m, rows, cols) ==
    LET nrl == rows * 2
        ncl == cols * 2
    IN  [rc \in Cells(nrl, ncl) |->
            LET r == rc[1]
                c == rc[2]
            IN  IF r < rows /\ c < cols THEN m[<<r, c>>]
                ELSE IF r < rows THEN CopyNoPlayer(m[<<r, c - cols>>])
                ELSE IF c < cols THEN CopyNoPlayer(m[<<r - rows, c>>])
                ELSE CopyNoPlayer(m[<<r - rows, c - cols>>])]

\* int nrl = maxRow * 2: the product, wrapped to 32 bits when it overflows
Double32(n) ==
    IF n <= INT32_MAX \div 2 THEN n * 2
    ELSE (n - (INT32_MAX \div 2 + 1)) * 2 - INT32_MAX - 1

\* maxRow * 2 or maxCol * 2 overflows int: undefined behaviour
DoubleOverflows(rows, cols) == rows > INT32_MAX \div 2 \/ cols > INT32_MAX \div 2

\* the call ends without returning: an exception or a crash; nothing is assigned
Aborted(how, m, kind, rows, cols) ==
    [ret |-> how, map |-> m, kind |-> kind, maxRow |-> rows, maxCol |-> cols]

\* lines 144-200 with nrl and ncl computed
ResizeTo(m, kind, rows, cols, nrl, ncl) ==
    IF nrl < 0 \/ (nrl > 0 /\ ncl < 0)
    THEN \* new char *[nrl] or new char[ncl] of a negative length
         {Aborted("throw", m, kind, rows, cols)}
    ELSE IF nrl = 0
    THEN \* no row to allocate, to copy or to delete: a map of no cells
         {[ret |-> "map", map |-> AllOpen(0, 0), kind |-> "grid",
           maxRow |-> nrl, maxCol |-> ncl]}
    ELSE IF kind = "grid" /\ Tracked(nrl, ncl)
    THEN {[ret |-> "map", map |-> ResizeCells(m, rows, cols), kind |-> "grid",
           maxRow |-> nrl, maxCol |-> ncl]}
    ELSE \* a map too large for the model: built, or std::bad_alloc
         {[ret |-> "map", map |-> <<>>, kind |-> "large",
           maxRow |-> nrl, maxCol |-> ncl],
          Aborted("throw", m, kind, rows, cols)}

\* resizeMap on a map createMap, loadLevel or resizeMap returned: the outcomes
\* of the call (line 141's test guards nothing)
ResizeMap(m, kind, rows, cols) ==
    ResizeTo(m, kind, rows, cols, Double32(rows), Double32(cols))
    \cup (IF DoubleOverflows(rows, cols)
          THEN {Aborted("crash", m, kind, rows, cols)}
          ELSE {})

(***************************************************************************)
(* createMap: the outcomes of the call.                                    *)
(***************************************************************************)
\* a faulty variant: a map of no cells is refused
CreateMapPositiveOnly(m, kind, rows, cols) ==
    IF rows <= 0 \/ cols <= 0
    THEN {[ret |-> "nullptr", map |-> <<>>, kind |-> "null"]}
    ELSE IF Tracked(rows, cols)
    THEN {[ret |-> "map", map |-> AllOpen(rows, cols), kind |-> "grid"]}
    ELSE {[ret |-> "map", map |-> <<>>, kind |-> "large"],
          [ret |-> "throw", map |-> m, kind |-> kind]}

CreateMap(m, kind, rows, cols) ==
    IF rows < 0 \/ cols < 0
    THEN {[ret |-> "nullptr", map |-> <<>>, kind |-> "null"]}
    ELSE IF Tracked(rows, IF rows = 0 THEN 0 ELSE cols)
    THEN \* no row of a 0 x cols map is allocated or filled
         {[ret |-> "map", map |-> AllOpen(rows, cols), kind |-> "grid"]}
    ELSE {[ret |-> "map", map |-> <<>>, kind |-> "large"],
          [ret |-> "throw", map |-> m, kind |-> kind]}

(***************************************************************************)
(* loadLevel.  A level file is [open, hdr, tiles]: whether it opens, its   *)
(* first (at most four) tokens, read as integers, and the single-character *)
(* tile tokens after them.                                                 *)
(***************************************************************************)
\* a header token: an integer, or text that is no integer
Num(v) == [ok |-> TRUE, val |-> v]
BadToken == [ok |-> FALSE, val |-> 0]

\* a cell no statement has written
UNINIT == "uninitialized"

\* the first header token f >> cannot read: missing (the file ends) or no integer
FirstFail(hdr) ==
    LET bad == {i \in 1 .. 4 : i > Len(hdr) \/ ~hdr[i].ok}
    IN  IF bad = {} THEN 5 ELSE CHOOSE i \in bad : \A j \in bad : i <= j

\* f >> v for the i-th header token: the integer read; 0 when the token is no
\* integer; v untouched once the stream has failed or the file has ended
HeaderValue(hdr, i, v) ==
    IF i < FirstFail(hdr) THEN hdr[i].val
    ELSE IF i = FirstFail(hdr) /\ i <= Len(hdr) THEN 0
    ELSE v

\* a faulty variant: the guard rejects a product that is exactly representable
LoadGuardOffByOne(rows, cols) ==
    rows # 0 /\ (IF rows > 0 THEN INT32_MAX \div rows <= cols
                 ELSE cols >= 0 \/ (INT32_MAX - 1) \div (-rows) >= -cols)

\* line 31: maxRow != 0 && (INT32_MAX / (maxRow * 1.0)) < maxCol, the quotient
\* a real number (the double holds it to 52 bits, more than the comparison needs)
LoadGuard(rows, cols) ==
    rows # 0 /\ (IF rows > 0 THEN INT32_MAX \div rows < cols
                 ELSE cols >= 0 \/ (INT32_MAX - 1) \div (-rows) >= -cols)

\* a faulty variant: row and column change places in the token's index
FilledCellColumnMajor(src, cols, r, c) ==
    IF FirstFail(src.hdr) = 5 /\ c * cols + r + 1 <= Len(src.tiles)
    THEN src.tiles[c * cols + r + 1]
    ELSE UNINIT

\* lines 40-46: the cell (r, c) after the fill: the token at row-major index
\* r * cols + c, or untouched when the stream has failed or run out
FilledCell(src, cols, r, c) ==
    IF FirstFail(src.hdr) = 5 /\ r * cols + c + 1 <= Len(src.tiles)
    THEN src.tiles[r * cols + c + 1]
    ELSE UNINIT

FilledMap(src, rows, cols) ==
    [rc \in Cells(rows, cols) |-> FilledCell(src, cols, rc[1], rc[2])]

\* line 47 outside the grid, undefined behaviour: the write lands outside the
\* grid's cells, or on any one of them
StrayWrites(m) == {m} \cup {[m EXCEPT ![rc] = TILE_PLAYER] : rc \in DOMAIN m}

\* lines 35-48, with the header read into rows, cols and p
LoadFill(src, rows, cols, p) ==
    LET done(how, kind, m) ==
            [ret |-> how, map |-> m, kind |-> kind,
             maxRow |-> rows, maxCol |-> cols, player |-> p]
    IN  IF rows < 0 \/ (rows > 0 /\ cols < 0)
        THEN \* new char *[maxRow] or new char[maxCol] of a negative length
             {done("throw", "null", <<>>)}
        ELSE IF ~Tracked(rows, IF rows = 0 THEN 0 ELSE cols)
        THEN \* a map too large for the model: built, std::bad_alloc, or
             \* (the player outside it) a crash
             {done("map", "large", <<>>), done("throw", "null", <<>>)}
             \cup (IF InBounds(p.row, p.col, rows, cols) THEN {}
                   ELSE {done("crash", "null", <<>>)})
        ELSE LET m == IF rows = 0 THEN AllOpen(0, 0) ELSE FilledMap(src, rows, cols)
             IN  IF InBounds(p.row, p.col, rows, cols)
                 THEN {done("map", "grid", [m EXCEPT ![<<p.row, p.col>>] = TILE_PLAYER])}
                 ELSE {done("map", "grid", w) : w \in StrayWrites(m)}
                      \cup {done("crash", "null", <<>>)}

\* a faulty variant: the load makes a new player, with no treasure
LoadedPlayerFresh(p, row, col) == [row |-> row, col |-> col, treasure |-> 0]

\* line 30: f >> player.row >> player.col, the player's other member as it was
LoadedPlayer(p, row, col) == [p EXCEPT !.row = row, !.col = col]

\* loadLevel: the outcomes of the call
LoadLevel(src, rows, cols, p) ==
    IF ~src.open
    THEN {[ret |-> "nullptr", map |-> <<>>, kind |-> "null",
           maxRow |-> rows, maxCol |-> cols, player |-> p]}
    ELSE LET nr == HeaderValue(src.hdr, 1, rows)
             nc == HeaderValue(src.hdr, 2, cols)
             np == LoadedPlayer(p, HeaderValue(src.hdr, 3, p.row),
                                   HeaderValue(src.hdr, 4, p.col))
         IN  IF LoadGuard(nr, nc)
             THEN {[ret |-> "nullptr", map |-> <<>>, kind |-> "null",
                    maxRow |-> nr, maxCol |-> nc, player |-> np]}
             ELSE LoadFill(src, nr, nc, np)

(***************************************************************************)
(* doPlayerMove: the map, the player and the status after the call.        *)
(***************************************************************************)
\* the status of an allowed move onto nextTile
MoveStatus(nextTile, treasure) ==
    IF nextTile = TILE_TREASURE THEN STATUS_TREASURE
    ELSE IF nextTile = TILE_AMULET THEN STATUS_AMULET
    ELSE IF nextTile = TILE_EXIT /\ treasure > 0 THEN STATUS_ESCAPE
    ELSE IF nextTile = TILE_DOOR THEN STATUS_LEAVE
    ELSE STATUS_MOVE

\* a faulty variant: an amulet counts as treasure
TreasureAfterCountingAmulet(nextTile, treasure) ==
    IF nextTile \in {TILE_TREASURE, TILE_AMULET} THEN treasure + 1 ELSE treasure

\* player.treasure++ on a treasure tile
TreasureAfter(nextTile, treasure) ==
    IF nextTile = TILE_TREASURE THEN treasure + 1 ELSE treasure

\* a faulty variant: the former cell keeps its Player tile
StepOntoKeepingFormer(m, p, nr, nc) == [m EXCEPT ![<<nr, nc>>] = TILE_PLAYER]

\* lines 252-257: the former cell opens, the player steps onto the target
StepOnto(m, p, nr, nc) ==
    [[m EXCEPT ![<<p.row, p.col>>] = TILE_OPEN] EXCEPT ![<<nr, nc>>] = TILE_PLAYER]

\* a faulty variant: the exit is open to a player without treasure
MoveBlockedExitOpen(m, rows, cols, p, nr, nc) ==
    \/ nr >= rows \/ nr < 0 \/ nc >= cols \/ nc < 0
    \/ m[<<nr, nc>>] = TILE_PILLAR
    \/ m[<<nr, nc>>] = TILE_MONSTER

\* a faulty variant: the player may step onto a monster
MoveBlockedMonsterOpen(m, rows, cols, p, nr, nc) ==
    \/ nr >= rows \/ nr < 0 \/ nc >= cols \/ nc < 0
    \/ m[<<nr, nc>>] = TILE_PILLAR
    \/ m[<<nr, nc>>] = TILE_EXIT /\ p.treasure = 0

\* lines 222-242: the move is refused
MoveBlocked(m, rows, cols, p, nr, nc) ==
    \/ nr >= rows \/ nr < 0 \/ nc >= cols \/ nc < 0
    \/ m[<<nr, nc>>] = TILE_PILLAR
    \/ m[<<nr, nc>>] = TILE_MONSTER
    \/ m[<<nr, nc>>] = TILE_EXIT /\ p.treasure = 0

DoPlayerMove(m, rows, cols, p, nr, nc) ==
    IF MoveBlocked(m, rows, cols, p, nr, nc)
    THEN [map |-> m, player |-> p, status |-> STATUS_STAY]
    ELSE LET nextTile == m[<<nr, nc>>]
         IN  [map |-> StepOnto(m, p, nr, nc),
              player |-> [row |-> nr, col |-> nc,
                          treasure |-> TreasureAfter(nextTile, p.treasure)],
              status |-> MoveStatus(nextTile, p.treasure)]

(***************************************************************************)
(* doMonsterAttack: the four rays, then the capture test.                  *)
(***************************************************************************)
\* a faulty variant: the ray to the left is not scanned
dirWithoutLeft == <<<<1, 0>>, <<-1, 0>>, <<0, 1>>, <<0, 1>>>>

\* int dir[4][2]
dir == <<<<1, 0>>, <<-1, 0>>, <<0, 1>>, <<0, -1>>>>

\* a faulty variant: the monster's former cell is not opened
AdvanceMonsterLeavingCopy(m, r, c, dr, dc) ==
    [m EXCEPT ![<<r - dr, c - dc>>] = TILE_MONSTER]

\* lines 287-291: a monster at (r, c) steps one cell toward the player
AdvanceMonster(m, r, c, dr, dc) ==
    [[m EXCEPT ![<<r - dr, c - dc>>] = TILE_MONSTER] EXCEPT ![<<r, c>>] = TILE_OPEN]

\* a faulty variant: the scan of a ray ends with the first monster it moves
RECURSIVE ScanRayNearestOnly(_, _, _, _, _, _, _)
ScanRayNearestOnly(m, rows, cols, r, c, dr, dc) ==
    IF ~InBounds(r, c, rows, cols) THEN m
    ELSE IF m[<<r, c>>] = TILE_PILLAR THEN m
    ELSE IF m[<<r, c>>] = TILE_MONSTER THEN AdvanceMonster(m, r, c, dr, dc)
    ELSE ScanRayNearestOnly(m, rows, cols, r + dr, c + dc, dr, dc)

\* the while loop of lines 283-294, from cell (r, c) outward
RECURSIVE ScanRay(_, _, _, _, _, _, _)
ScanRay(m, rows, cols, r, c, dr, dc) ==
    IF ~InBounds(r, c, rows, cols) THEN m
    ELSE IF m[<<r, c>>] = TILE_PILLAR THEN m
    ELSE LET m2 == IF m[<<r, c>>] = TILE_MONSTER
                   THEN AdvanceMonster(m, r, c, dr, dc)
                   ELSE m
         IN  ScanRay(m2, rows, cols, r + dr, c + dc, dr, dc)

\* the for loop of lines 279-295, rays i .. 4
RECURSIVE ScanRays(_, _, _, _, _)
ScanRays(m, rows, cols, p, i) ==
    IF i > 4 THEN m
    ELSE ScanRays(ScanRay(m, rows, cols, p.row + dir[i][1], p.col + dir[i][2],
                          dir[i][1], dir[i][2]),
                  rows, cols, p, i + 1)

\* a faulty variant: the capture test reads the map before the rays are scanned
DoMonsterAttackTestingFirst(m, rows, cols, p) ==
    [map |-> ScanRays(m, rows, cols, p, 1),
     captured |-> (m[<<p.row, p.col>>] = TILE_MONSTER)]

DoMonsterAttack(m, rows, cols, p) ==
    LET m2 == ScanRays(m, rows, cols, p, 1)
    IN  [map |-> m2, captured |-> (m2[<<p.row, p.col>>] = TILE_MONSTER)]

(***************************************************************************)
(* The game: starting maps and the three operations of a turn.             *)
(***************************************************************************)
\* the tiles a level places besides the player
ItemTiles == Tiles \ {TILE_OPEN, TILE_PLAYER}

\* a map with the player at pp and the items of `items` (cell -> tile)
LevelMap(rows, cols, pp, items) ==
    [rc \in Cells(rows, cols) |->
        IF rc = pp THEN TILE_PLAYER
        ELSE IF rc \in DOMAIN items THEN items[rc]
        ELSE TILE_OPEN]

\* the last call threw or crashed: the program has ended
Ended == op \in {"create", "resize", "load"} /\ ret \in {"throw", "crash"}

Snapshot == [map |-> map, mapKind |-> mapKind, maxRow |-> maxRow, maxCol |-> maxCol, player |-> player]

NoSnapshot == [map |-> <<>>, mapKind |-> "null", maxRow |-> 0, maxCol |-> 0,
               player |-> [row |-> 0, col |-> 0, treasure |-> 0]]

Init ==
    \E size \in GridSizes :
      \E pp \in Cells(size[1], size[2]) :
        \E where \in SUBSET (Cells(size[1], size[2]) \ {pp}) :
          /\ Cardinality(where) <= MaxItems
          /\ \E items \in [where -> ItemTiles] :
                map = LevelMap(size[1], size[2], pp, items)
          /\ mapKind = "grid"
          /\ source = NoFile
          /\ maxRow = size[1]
          /\ maxCol = size[2]
          /\ player = [row |-> pp[1], col |-> pp[2], treasure |-> 0]
          /\ op = "init"
          /\ ret = "none"
          /\ nextRow = 0
          /\ nextCol = 0
          /\ old = NoSnapshot
          /\ everCaptured = FALSE
          /\ steps = 0
          /\ input = "none"
          /\ everTreasure = FALSE
          /\ chaseCalls = 0
          /\ chaseFrom = NoSnapshot

\* getDirection: <<nextRow, nextCol>> after the call
GetDirection(in, nr, nc) ==
    CASE in = MOVE_UP -> <<nr - 1, nc>>
      [] in = MOVE_DOWN -> <<nr + 1, nc>>
      [] in = MOVE_LEFT -> <<nr, nc - 1>>
      [] in = MOVE_RIGHT -> <<nr, nc + 1>>
      [] OTHER -> <<nr, nc>>

\* a row of doMonsterAttack calls ends with any other call
NoChase == chaseCalls' = 0 /\ chaseFrom' = NoSnapshot

\* one turn's move: the target starts as the player's cell, getDirection
\* translates the input, doPlayerMove moves
PlayerMove ==
    /\ steps < MaxSteps
    /\ mapKind = "grid"
    /\ \E in \in Inputs :
        LET to == GetDirection(in, player.row, player.col)
            res == DoPlayerMove(map, maxRow, maxCol, player, to[1], to[2])
        IN  /\ input' = in
            /\ map' = res.map
            /\ player' = res.player
            /\ ret' = res.status
            /\ nextRow' = to[1]
            /\ nextCol' = to[2]
            /\ everTreasure' = (everTreasure \/ res.status = STATUS_TREASURE)
    /\ op' = "move"
    /\ old' = Snapshot
    /\ steps' = steps + 1
    /\ NoChase
    /\ UNCHANGED <<mapKind, source, maxRow, maxCol, everCaptured>>

\* one doMonsterAttack call
MonsterAttackCall ==
    /\ mapKind = "grid"
    /\ LET res == DoMonsterAttack(map, maxRow, maxCol, player)
       IN  /\ map' = res.map
           /\ ret' = res.captured
           /\ everCaptured' = (everCaptured \/ res.captured)
    /\ op' = "monster"
    /\ old' = Snapshot
    /\ steps' = steps + 1
    /\ chaseCalls' = chaseCalls + 1
    /\ chaseFrom' = IF chaseCalls = 0 THEN Snapshot ELSE chaseFrom
    /\ UNCHANGED <<mapKind, source, maxRow, maxCol, player, nextRow, nextCol,
                   input, everTreasure>>

MonsterAttack ==
    /\ steps < MaxSteps
    /\ MonsterAttackCall

Resize ==
    /\ steps < MaxSteps
    /\ ~Ended
    /\ mapKind # "null"
    /\ \E out \in ResizeMap(map, mapKind, maxRow, maxCol) :
        /\ map' = out.map
        /\ mapKind' = out.kind
        /\ maxRow' = out.maxRow
        /\ maxCol' = out.maxCol
        /\ ret' = out.ret
    /\ op' = "resize"
    /\ old' = Snapshot
    /\ steps' = steps + 1
    /\ NoChase
    /\ UNCHANGED <<source, player, nextRow, nextCol, everCaptured, input, everTreasure>>

Next == PlayerMove \/ MonsterAttack \/ Resize

Spec == Init /\ [][Next]_vars

(***************************************************************************)
(* The pursuit alone: doMonsterAttack called again and again on a level,   *)
(* no move and no resize in between.                                       *)
(***************************************************************************)
\* the most doMonsterAttack calls in a row
MaxChase == 3

Chase ==
    /\ steps < MaxChase
    /\ MonsterAttackCall

NextChase == Chase

SpecChase == Init /\ [][NextChase]_vars

(***************************************************************************)
(* The allocator alone: createMap and resizeMap on the dimensions a caller *)
(* may pass, the large ones included.                                      *)
(***************************************************************************)
\* the dimensions tried: around 0, and around the products INT32_MAX bounds
DimValues == {-1, 0, 1, 2, 32767, 32768, 65536, INT32_MAX}

NoPlayer == [row |-> 0, col |-> 0, treasure |-> 0]

InitAlloc ==
    /\ maxRow \in DimValues
    /\ maxCol \in DimValues
    /\ map = <<>>
    /\ mapKind = "null"
    /\ source = NoFile
    /\ player = NoPlayer
    /\ op = "init"
    /\ ret = "none"
    /\ nextRow = 0
    /\ nextCol = 0
    /\ old = NoSnapshot
    /\ everCaptured = FALSE
    /\ steps = 0
    /\ input = "none"
    /\ everTreasure = FALSE
    /\ chaseCalls = 0
    /\ chaseFrom = NoSnapshot

Create ==
    /\ steps < MaxSteps
    /\ ~Ended
    /\ \E out \in CreateMap(map, mapKind, maxRow, maxCol) :
        /\ map' = out.map
        /\ mapKind' = out.kind
        /\ ret' = out.ret
    /\ op' = "create"
    /\ old' = Snapshot
    /\ steps' = steps + 1
    /\ NoChase
    /\ UNCHANGED <<source, maxRow, maxCol, player, nextRow, nextCol, everCaptured,
                   input, everTreasure>>

NextAlloc == Create \/ Resize

SpecAlloc == InitAlloc /\ [][NextAlloc]_vars

(***************************************************************************)
(* The loader alone: one loadLevel call on a level file, complete,         *)
(* truncated or malformed, by a caller whose variables hold earlier values.*)
(***************************************************************************)
\* the most tile tokens of a level file
MaxTiles == 4

\* the tile tokens of the files
FileTiles == {TILE_OPEN, TILE_MONSTER, TILE_PLAYER}

\* the player's start coordinates of the files
PosValues == -1 .. 2

DimTokens == {Num(v) : v \in DimValues} \cup {BadToken}
PosTokens == {Num(v) : v \in PosValues} \cup {BadToken}

\* the headers: rows cols playerRow playerCol, and what is left when the file
\* ends earlier
Headers ==
    {<<>>}
    \cup {<<a>> : a \in DimTokens}
    \cup {<<a, b>> : a \in DimTokens, b \in DimTokens}
    \cup {<<a, b, c>> : a \in DimTokens, b \in DimTokens, c \in PosTokens}
    \cup {<<a, b, c, d>> : a \in DimTokens, b \in DimTokens,
                           c \in PosTokens, d \in PosTokens}

SeqsUpTo(S, n) == UNION {[1 .. k -> S] : k \in 0 .. n}

\* the tile tokens after header h: none where no cell of a tracked grid reads them
TileStreams(h) ==
    IF /\ FirstFail(h) = 5
       /\ h[1].val \in 1 .. MaxSide
       /\ h[2].val \in 1 .. MaxSide
    THEN SeqsUpTo(FileTiles, MaxTiles)
    ELSE {<<>>}

\* the caller's maxRow, maxCol and player before the call
PriorStates ==
    {[maxRow |-> 0, maxCol |-> 0, player |-> [row |-> 0, col |-> 0, treasure |-> 0]],
     [maxRow |-> 2, maxCol |-> 2, player |-> [row |-> 1, col |-> 1, treasure |-> 1]]}

InitLoad ==
    /\ \E isOpen \in BOOLEAN :
         \E h \in (IF isOpen THEN Headers ELSE {<<>>}) :
           \E t \in (IF isOpen THEN TileStreams(h) ELSE {<<>>}) :
             source = [open |-> isOpen, hdr |-> h, tiles |-> t]
    /\ \E prior \in PriorStates :
         /\ maxRow = prior.maxRow
         /\ maxCol = prior.maxCol
         /\ player = prior.player
    /\ map = <<>>
    /\ mapKind = "null"
    /\ op = "init"
    /\ ret = "none"
    /\ nextRow = 0
    /\ nextCol = 0
    /\ old = NoSnapshot
    /\ everCaptured = FALSE
    /\ steps = 0
    /\ input = "none"
    /\ everTreasure = FALSE
    /\ chaseCalls = 0
    /\ chaseFrom = NoSnapshot

Load ==
    /\ op = "init"
    /\ \E out \in LoadLevel(source, maxRow, maxCol, player) :
        /\ map' = out.map
        /\ mapKind' = out.kind
        /\ maxRow' = out.maxRow
        /\ maxCol' = out.maxCol
        /\ player' = out.player
        /\ ret' = out.ret
    /\ op' = "load"
    /\ old' = Snapshot
    /\ steps' = steps + 1
    /\ NoChase
    /\ UNCHANGED <<source, nextRow, nextCol, everCaptured, input, everTreasure>>

NextLoad == Load

SpecLoad == InitLoad /\ [][NextLoad]_vars

(***************************************************************************)
(* Helpers of the properties.                                              *)
(***************************************************************************)
\* the cells of m that hold tile t
CellsHolding(m, t) == {rc \in DOMAIN m : m[rc] = t}

\* the player's cell
PlayerCell(p) == <<p.row, p.col>>

\* the cell of doPlayerMove's target
Target == <<nextRow, nextCol>>

\* the program state before the operation that produced this state
OldCells == Cells(old.maxRow, old.maxCol)

(***************************************************************************)
(* C1: as long as no doMonsterAttack call has returned true, exactly one   *)
(* cell of the map holds Player, and it is the cell (player.row,           *)
(* player.col), after any sequence of moves, monster attacks and resizes.  *)
(***************************************************************************)
C1_UniquePlayerTile ==
    (~everCaptured /\ mapKind = "grid") =>
        /\ InBounds(player.row, player.col, maxRow, maxCol)
        /\ CellsHolding(map, TILE_PLAYER) = {PlayerCell(player)}

\* a move made on a resized map, nobody captured
C1_Witness ==
    /\ op = "move"
    /\ ret # STATUS_STAY
    /\ maxRow = 4
    /\ maxCol = 4
    /\ ~everCaptured

(***************************************************************************)
(* C3: with a treasure count >= 0, doPlayerMove returns Stay exactly when  *)
(* the target is out of bounds, or holds Pillar, or holds Monster, or      *)
(* holds Exit while the treasure count is 0; and a move that returns Stay  *)
(* leaves every cell, the player's row and column and the treasure count   *)
(* unchanged.                                                              *)
(***************************************************************************)
C3_StayCases ==
    (op = "move" /\ old.player.treasure >= 0) =>
        /\ ret = STATUS_STAY <=>
              \/ Target \notin OldCells
              \/ /\ Target \in OldCells
                 /\ \/ old.map[Target] = TILE_PILLAR
                    \/ old.map[Target] = TILE_MONSTER
                    \/ old.map[Target] = TILE_EXIT /\ old.player.treasure = 0
        /\ ret = STATUS_STAY =>
              /\ map = old.map
              /\ player = old.player

\* a move onto the exit refused for want of treasure
C3_Witness ==
    /\ op = "move"
    /\ ret = STATUS_STAY
    /\ Target \in OldCells
    /\ old.map[Target] = TILE_EXIT
    /\ old.player.treasure = 0

(***************************************************************************)
(* C4: an allowed move (target in bounds, one cell away, not Pillar, not   *)
(* Monster, not Exit with treasure count 0) returns Leave on Door, Escape  *)
(* on Exit, Amulet on Amulet, Treasure on Treasure and Move otherwise; the *)
(* treasure count grows by exactly 1 on Treasure and is unchanged          *)
(* otherwise; the former cell holds Open, the target holds Player, the     *)
(* player's row and column are the target's, no other cell has changed.    *)
(***************************************************************************)
Abs(n) == IF n < 0 THEN -n ELSE n

C4_Allowed ==
    /\ op = "move"
    /\ Target \in OldCells
    /\ Abs(nextRow - old.player.row) + Abs(nextCol - old.player.col) = 1
    /\ old.map[Target] # TILE_PILLAR
    /\ old.map[Target] # TILE_MONSTER
    /\ ~(old.map[Target] = TILE_EXIT /\ old.player.treasure = 0)

C4_Outcome(t) ==
    CASE t = TILE_DOOR -> STATUS_LEAVE
      [] t = TILE_EXIT -> STATUS_ESCAPE
      [] t = TILE_AMULET -> STATUS_AMULET
      [] t = TILE_TREASURE -> STATUS_TREASURE
      [] OTHER -> STATUS_MOVE

C4_AllowedMove ==
    C4_Allowed =>
        /\ ret = C4_Outcome(old.map[Target])
        /\ player.treasure = old.player.treasure
                               + (IF old.map[Target] = TILE_TREASURE THEN 1 ELSE 0)
        /\ map[PlayerCell(old.player)] = TILE_OPEN
        /\ map[Target] = TILE_PLAYER
        /\ player.row = nextRow
        /\ player.col = nextCol
        /\ DOMAIN map = DOMAIN old.map
        /\ \A rc \in DOMAIN map \ {Target, PlayerCell(old.player)} :
              map[rc] = old.map[rc]

\* the player escapes through the exit, holding treasure
C4_Witness ==
    /\ C4_Allowed
    /\ old.map[Target] = TILE_EXIT
    /\ ret = STATUS_ESCAPE
    /\ old.player.treasure = 1

(***************************************************************************)
(* C5: after one doMonsterAttack call (player in bounds, the player's cell *)
(* holding Player), every Monster that lay on one of the four rays from    *)
(* the player with no Pillar between it and the player is one cell closer  *)
(* to the player and has left its cell (which is Open, unless the next     *)
(* monster of the ray has stepped into it); every Monster off the rays, or *)
(* behind a Pillar, is still in its cell.                                  *)
(***************************************************************************)
Sign(n) == IF n > 0 THEN 1 ELSE IF n < 0 THEN -1 ELSE 0

\* rc lies on one of the four cardinal rays from the player
OnRay(p, rc) == rc # PlayerCell(p) /\ (rc[1] = p.row \/ rc[2] = p.col)

\* the neighbour of rc one cell closer to the player, and the one further out
Closer(p, rc) == <<rc[1] - Sign(rc[1] - p.row), rc[2] - Sign(rc[2] - p.col)>>
Further(p, rc) == <<rc[1] + Sign(rc[1] - p.row), rc[2] + Sign(rc[2] - p.col)>>

\* rc on a ray, and no Pillar in a cell of that ray nearer the player
LineOfSight(m, p, rc) ==
    /\ OnRay(p, rc)
    /\ \A b \in DOMAIN m :
          (/\ OnRay(p, b)
           /\ Sign(b[1] - p.row) = Sign(rc[1] - p.row)
           /\ Sign(b[2] - p.col) = Sign(rc[2] - p.col)
           /\ Abs(b[1] - p.row) + Abs(b[2] - p.col)
                < Abs(rc[1] - p.row) + Abs(rc[2] - p.col))
          => m[b] # TILE_PILLAR

\* a doMonsterAttack call made with the player in bounds, on a Player tile
AttackOnPlayerTile ==
    /\ op = "monster"
    /\ InBounds(old.player.row, old.player.col, old.maxRow, old.maxCol)
    /\ old.map[PlayerCell(old.player)] = TILE_PLAYER

C5_MonstersAdvance ==
    AttackOnPlayerTile =>
        \A rc \in CellsHolding(old.map, TILE_MONSTER) :
            IF LineOfSight(old.map, old.player, rc)
            THEN /\ map[Closer(old.player, rc)] = TILE_MONSTER
                 /\ map[rc] = IF /\ Further(old.player, rc) \in DOMAIN old.map
                                 /\ old.map[Further(old.player, rc)] = TILE_MONSTER
                              THEN TILE_MONSTER
                              ELSE TILE_OPEN
            ELSE map[rc] = TILE_MONSTER

\* two monsters in line of sight on one ray, the nearer one not yet adjacent
C5_Witness ==
    /\ AttackOnPlayerTile
    /\ \E rc \in CellsHolding(old.map, TILE_MONSTER) :
          /\ LineOfSight(old.map, old.player, rc)
          /\ Closer(old.player, rc) # PlayerCell(old.player)
          /\ Further(old.player, rc) \in CellsHolding(old.map, TILE_MONSTER)

(***************************************************************************)
(* C6: doMonsterAttack, called with the player's cell holding Player,      *)
(* returns true exactly when one of the in-bounds cells cardinally         *)
(* adjacent to the player held Monster before the call; when it returns    *)
(* true the player's cell holds Monster afterwards, when it returns false  *)
(* the player's cell still holds Player.                                   *)
(***************************************************************************)
Adjacent(p) ==
    {<<p.row + 1, p.col>>, <<p.row - 1, p.col>>,
     <<p.row, p.col + 1>>, <<p.row, p.col - 1>>}

C6_CaptureIffAdjacent ==
    AttackOnPlayerTile =>
        /\ ret = TRUE <=>
              \E rc \in Adjacent(old.player) \cap DOMAIN old.map :
                  old.map[rc] = TILE_MONSTER
        /\ ret = TRUE => map[PlayerCell(player)] = TILE_MONSTER
        /\ ret = FALSE => map[PlayerCell(player)] = TILE_PLAYER

\* a monster to the left of the player captures the player
C6_Witness ==
    /\ AttackOnPlayerTile
    /\ ret = TRUE
    /\ <<old.player.row, old.player.col - 1>> \in CellsHolding(old.map, TILE_MONSTER)

(***************************************************************************)
(* C7: resizeMap of an r x c map returns a 2r x 2c map and sets the        *)
(* dimensions to 2r and 2c; for 0 <= i < r, 0 <= j < c the new cell (i, j) *)
(* equals the original cell (i, j), a Player tile included, and the new    *)
(* cells (i, j + c), (i + r, j), (i + r, j + c) equal it with Player       *)
(* written as Open.                                                        *)
(***************************************************************************)
C7_OpenForPlayer(t) == IF t = TILE_PLAYER THEN TILE_OPEN ELSE t

C7_ResizeQuadrants ==
    (op = "resize" /\ old.mapKind = "grid" /\ Tracked(2 * old.maxRow, 2 * old.maxCol)) =>
        LET r == old.maxRow
            c == old.maxCol
        IN  /\ ret = "map"
            /\ mapKind = "grid"
            /\ maxRow = 2 * r
            /\ maxCol = 2 * c
            /\ DOMAIN map = Cells(2 * r, 2 * c)
            /\ \A i \in 0 .. r - 1 : \A j \in 0 .. c - 1 :
                  /\ map[<<i, j>>] = old.map[<<i, j>>]
                  /\ map[<<i, j + c>>] = C7_OpenForPlayer(old.map[<<i, j>>])
                  /\ map[<<i + r, j>>] = C7_OpenForPlayer(old.map[<<i, j>>])
                  /\ map[<<i + r, j + c>>] = C7_OpenForPlayer(old.map[<<i, j>>])

\* a 2 x 2 map resized, the player in its last cell, another tile beside
C7_Witness ==
    /\ op = "resize"
    /\ old.mapKind = "grid"
    /\ old.maxRow = 2
    /\ old.maxCol = 2
    /\ old.map[<<1, 1>>] = TILE_PLAYER
    /\ old.map[<<0, 1>>] = TILE_TREASURE
    /\ maxRow = 4

(***************************************************************************)
(* The product of two dimensions against INT32_MAX, by long multiplication *)
(* in base 256 (no intermediate value leaves 32 bits).                     *)
(***************************************************************************)
Digit(n, i) == (n \div 256 ^ i) % 256

\* the coefficient of 256^k in a * b before the carries
Coef(a, b, k) ==
    LET term(i) == IF k - i \in 0 .. 3 THEN Digit(a, i) * Digit(b, k - i) ELSE 0
    IN  term(0) + term(1) + term(2) + term(3)

RECURSIVE CarryInto(_, _, _)
CarryInto(a, b, k) ==
    IF k = 0 THEN 0 ELSE (Coef(a, b, k - 1) + CarryInto(a, b, k - 1)) \div 256

ProductDigit(a, b, k) == (Coef(a, b, k) + CarryInto(a, b, k)) % 256

\* a * b > INT32_MAX, for 0 <= a, b <= INT32_MAX
ProductExceeds(a, b) ==
    \/ \E k \in 4 .. 7 : ProductDigit(a, b, k) # 0
    \/ ProductDigit(a, b, 3) >= 128

(***************************************************************************)
(* C2: after a loadLevel call that returns a map, the player's coordinates *)
(* satisfy 0 <= player.row < maxRow and 0 <= player.col < maxCol; a load   *)
(* whose declared start coordinates lie outside the declared grid yields   *)
(* no map.                                                                 *)
(***************************************************************************)
C2_LoadedPlayerInBounds ==
    (op = "load" /\ ret = "map") =>
        InBounds(player.row, player.col, maxRow, maxCol)

(***************************************************************************)
(* C8: createMap and resizeMap return no map whenever the cell count of    *)
(* the map they would build (rows * cols; 2 rows * 2 cols, a doubled       *)
(* dimension beyond INT32_MAX included) exceeds INT32_MAX; such a resize   *)
(* leaves the original map and its dimensions as they were.                *)
(***************************************************************************)
C8_ResizeExceeds(rows, cols) ==
    /\ rows >= 0
    /\ cols >= 0
    /\ \/ rows > INT32_MAX \div 2
       \/ cols > INT32_MAX \div 2
       \/ ProductExceeds(2 * rows, 2 * cols)

C8_CapacityGuard ==
    /\ (op = "create" /\ maxRow >= 0 /\ maxCol >= 0 /\ ProductExceeds(maxRow, maxCol))
          => ret # "map"
    /\ (op = "resize" /\ C8_ResizeExceeds(old.maxRow, old.maxCol))
          => /\ ret # "map"
             /\ map = old.map
             /\ mapKind = old.mapKind
             /\ maxRow = old.maxRow
             /\ maxCol = old.maxCol

(***************************************************************************)
(* C9: for declared rows >= 1 and cols >= 0 read from a file that opens,   *)
(* loadLevel returns nullptr if and only if rows * cols exceeds INT32_MAX. *)
(***************************************************************************)
C9_Declared ==
    /\ op = "load"
    /\ source.open
    /\ Len(source.hdr) >= 2
    /\ source.hdr[1].ok
    /\ source.hdr[2].ok
    /\ source.hdr[1].val >= 1
    /\ source.hdr[2].val >= 0

C9_LoadGuardExact ==
    C9_Declared =>
        (ret = "nullptr" <=> ProductExceeds(source.hdr[1].val, source.hdr[2].val))

\* 65536 x 32768 cells, one more than INT32_MAX: refused
C9_Witness ==
    /\ C9_Declared
    /\ source.hdr[1].val = 65536
    /\ source.hdr[2].val = 32768
    /\ ret = "nullptr"

(***************************************************************************)
(* C10: loadLevel returns no map whenever the file does not supply all     *)
(* four header integers followed by at least rows * cols tile tokens; it   *)
(* never returns a map some of whose cells were not filled from a token.   *)
(* Stated for the calls that stamp the player inside the grid, where the   *)
(* outcome is the code's own and no undefined behaviour's.                 *)
(***************************************************************************)
\* the file supplies the header and every tile token the grid reads
C10_Complete(src) ==
    /\ FirstFail(src.hdr) = 5
    /\ LET rows == src.hdr[1].val
           cols == src.hdr[2].val
       IN  \/ rows <= 0
           \/ cols <= 0
           \/ rows <= MaxTiles /\ cols <= MaxTiles /\ rows * cols <= Len(src.tiles)

C10_TruncatedLoadFails ==
    (op = "load" /\ source.open /\ InBounds(player.row, player.col, maxRow, maxCol)) =>
        /\ ~C10_Complete(source) => ret # "map"
        /\ (ret = "map" /\ mapKind = "grid") =>
              \A rc \in DOMAIN map : map[rc] # UNINIT

(***************************************************************************)
(* C11: after a loadLevel call that returns a map, on a file declaring     *)
(* rows, cols, playerRow, playerCol, the start inside the grid, followed   *)
(* by rows * cols tile tokens: maxRow and maxCol are rows and cols,        *)
(* player.row and player.col are the declared start, the cell of the start *)
(* holds Player whatever token was read there, and every other cell (r, c) *)
(* holds the token at row-major index r * cols + c.                        *)
(***************************************************************************)
\* the i-th header integer of the file
C11_Declared(i) == source.hdr[i].val

\* a call that returns a map, on a file that supplies the header, a start
\* inside the grid and every tile token
CompleteLoad ==
    /\ op = "load"
    /\ ret = "map"
    /\ source.open
    /\ FirstFail(source.hdr) = 5
    /\ InBounds(C11_Declared(3), C11_Declared(4), C11_Declared(1), C11_Declared(2))
    /\ C11_Declared(1) <= MaxTiles
    /\ C11_Declared(2) <= MaxTiles
    /\ Len(source.tiles) >= C11_Declared(1) * C11_Declared(2)

C11_LoadedGrid ==
    CompleteLoad =>
        /\ maxRow = C11_Declared(1)
        /\ maxCol = C11_Declared(2)
        /\ player.row = C11_Declared(3)
        /\ player.col = C11_Declared(4)
        /\ mapKind = "grid"
        /\ DOMAIN map = Cells(C11_Declared(1), C11_Declared(2))
        /\ \A r \in 0 .. C11_Declared(1) - 1 : \A c \in 0 .. C11_Declared(2) - 1 :
              map[<<r, c>>] =
                  IF r = C11_Declared(3) /\ c = C11_Declared(4)
                  THEN TILE_PLAYER
                  ELSE source.tiles[r * C11_Declared(2) + c + 1]

\* a 2 x 2 level, the start (1, 0) where the file has a Monster token, the
\* other tokens not all alike
C11_Witness ==
    /\ CompleteLoad
    /\ source.hdr = <<Num(2), Num(2), Num(1), Num(0)>>
    /\ source.tiles = <<TILE_OPEN, TILE_MONSTER, TILE_MONSTER, TILE_OPEN>>
    /\ map[<<1, 0>>] = TILE_PLAYER
    /\ map[<<0, 1>>] = TILE_MONSTER

(***************************************************************************)
(* C12: after every loadLevel call that returns a map, the player's        *)
(* treasure count is 0, whatever it was before the call.  Stated for the  *)
(* loads of a complete file with the start inside the grid.                *)
(***************************************************************************)
C12_LoadResetsTreasure ==
    CompleteLoad => player.treasure = 0

(***************************************************************************)
(* C12, amended: after every loadLevel call that returns a map, the        *)
(* player's treasure count is what it was before the call (0 exactly when  *)
(* it was 0 before).                                                       *)
(***************************************************************************)
C12_LoadKeepsTreasure ==
    (op = "load" /\ ret = "map") => player.treasure = old.player.treasure

\* a complete 2 x 2 level loaded by a caller whose player holds one treasure
C12_Witness ==
    /\ CompleteLoad
    /\ maxRow = 2
    /\ maxCol = 2
    /\ old.player.treasure = 1
    /\ player.treasure = 1
    /\ player.row = 0
    /\ player.col = 1

(***************************************************************************)
(* C13: createMap(rows, cols) fails, returning no map, exactly when        *)
(* rows < 0 or cols < 0; for every rows >= 0 and cols >= 0 it returns a    *)
(* rows x cols grid in which every cell holds Open.  Stated for the calls  *)
(* with a negative dimension and for the grids of 2^48 cells or more,      *)
(* which no allocation can supply.                                         *)
(***************************************************************************)
C13_Negative == old.maxRow < 0 \/ old.maxCol < 0

\* rows * cols >= 2^48, for 0 <= rows, cols <= INT32_MAX
C13_BeyondAddressSpace(rows, cols) ==
    /\ rows >= 0
    /\ cols >= 0
    /\ \E k \in 6 .. 7 : ProductDigit(rows, cols, k) # 0

\* the map returned is rows x cols, every cell Open (the cells of a large
\* map are not tracked)
C13_AllOpenGrid ==
    /\ ret = "map"
    /\ maxRow = old.maxRow
    /\ maxCol = old.maxCol
    /\ mapKind = "grid" =>
          /\ DOMAIN map = Cells(maxRow, maxCol)
          /\ \A rc \in DOMAIN map : map[rc] = TILE_OPEN

Dist(p, rc) == Abs(rc[1] - p.row) + Abs(rc[2] - p.col)

\* a and b lie on the same ray from the player
SameRay(p, a, b) ==
    /\ OnRay(p, a)
    /\ OnRay(p, b)
    /\ Sign(a[1] - p.row) = Sign(b[1] - p.row)
    /\ Sign(a[2] - p.col) = Sign(b[2] - p.col)

C14_OnlyNearestMoves ==
    AttackOnPlayerTile =>
        \A rc \in CellsHolding(old.map, TILE_MONSTER) :
            (\E nearer \in CellsHolding(old.map, TILE_MONSTER) :
                /\ SameRay(old.player, nearer, rc)
                /\ Dist(old.player, nearer) < Dist(old.player, rc))
            => map[rc] = TILE_MONSTER

(***************************************************************************)
(* C14, amended: in one doMonsterAttack call every Monster of a ray with   *)
(* no Pillar between it and the player changes position, each by one cell  *)
(* toward the player, not the nearest alone; the Monster tiles further out *)
(* on the ray that lie behind a Pillar are in the same cells after the     *)
(* call as before it.  So the Monster tiles of each ray after the call are *)
(* the cells one step nearer than those in sight (short of the player's    *)
(* cell) and the cells of those behind a Pillar.                           *)
(***************************************************************************)
\* the four directions of the rays
C14_Directions == {<<1, 0>>, <<-1, 0>>, <<0, 1>>, <<0, -1>>}

\* the cells of the ray of direction d from the player of the call
C14_Ray(d) ==
    {rc \in DOMAIN old.map :
        /\ OnRay(old.player, rc)
        /\ Sign(rc[1] - old.player.row) = d[1]
        /\ Sign(rc[2] - old.player.col) = d[2]}

C14_EveryMonsterInSightMoves ==
    AttackOnPlayerTile =>
        \A d \in C14_Directions :
            LET before == C14_Ray(d) \cap CellsHolding(old.map, TILE_MONSTER)
                seen == {rc \in before : LineOfSight(old.map, old.player, rc)}
            IN  C14_Ray(d) \cap CellsHolding(map, TILE_MONSTER)
                  = ({Closer(old.player, rc) : rc \in seen} \ {PlayerCell(old.player)})
                    \cup (before \ seen)

\* two monsters in sight on one ray, the nearer one beside the player: both move
C14_Witness ==
    /\ AttackOnPlayerTile
    /\ \E a, b \in CellsHolding(old.map, TILE_MONSTER) :
          /\ SameRay(old.player, a, b)
          /\ Dist(old.player, a) = 1
          /\ Dist(old.player, b) = 2
          /\ map[a] = TILE_MONSTER
          /\ map[b] = TILE_OPEN
    /\ ret = TRUE

(***************************************************************************)
(* C15: whenever doMonsterAttack moves a Monster into a cell other than    *)
(* the player's own, that cell held Open just before the monster was       *)
(* written into it (Open from the start, or left Open by the monster that  *)
(* moved out of it earlier in the call); so the call never overwrites a    *)
(* Treasure, Door, Exit or Amulet tile.                                    *)
(***************************************************************************)
C15_Kept == {TILE_TREASURE, TILE_DOOR, TILE_EXIT, TILE_AMULET}

C15_MonsterStepsOntoOpen ==
    AttackOnPlayerTile =>
        /\ \A rc \in CellsHolding(old.map, TILE_MONSTER) :
              (/\ LineOfSight(old.map, old.player, rc)
               /\ Closer(old.player, rc) # PlayerCell(old.player))
              => old.map[Closer(old.player, rc)] \in {TILE_OPEN, TILE_MONSTER}
        /\ \A rc \in DOMAIN old.map :
              old.map[rc] \in C15_Kept => map[rc] = old.map[rc]

(***************************************************************************)
(* C16: for an input that is none of the four movement commands,           *)
(* getDirection leaves the target at the player's position, and the move   *)
(* on that target returns Stay with the map, the player's position and    *)
(* the treasure count unchanged; for each of the four commands exactly one *)
(* target coordinate changes, by exactly 1: Up row - 1, Down row + 1,      *)
(* Left col - 1, Right col + 1.                                            *)
(***************************************************************************)
C16_DirectionThenMove ==
    op = "move" =>
        /\ input = OtherInput =>
              /\ Target = PlayerCell(old.player)
              /\ ret = STATUS_STAY
              /\ map = old.map
              /\ player = old.player
        /\ input = MOVE_UP => Target = <<old.player.row - 1, old.player.col>>
        /\ input = MOVE_DOWN => Target = <<old.player.row + 1, old.player.col>>
        /\ input = MOVE_LEFT => Target = <<old.player.row, old.player.col - 1>>
        /\ input = MOVE_RIGHT => Target = <<old.player.row, old.player.col + 1>>

(***************************************************************************)
(* C17: in any sequence of doPlayerMove, doMonsterAttack and resizeMap     *)
(* calls that starts with treasure count 0, the treasure count never       *)
(* decreases, it changes only in a move that returns Treasure, and every   *)
(* move that returns Escape comes after a move that returned Treasure.     *)
(***************************************************************************)
C17_TreasureBeforeEscape ==
    /\ op \in {"move", "monster", "resize"} =>
          /\ player.treasure >= old.player.treasure
          /\ player.treasure # old.player.treasure =>
                (op = "move" /\ ret = STATUS_TREASURE)
    /\ (op = "move" /\ ret = STATUS_ESCAPE) => everTreasure

\* the player escapes with the treasure picked up in the move before
C17_Witness ==
    /\ op = "move"
    /\ ret = STATUS_ESCAPE
    /\ everTreasure
    /\ steps = 2
    /\ player.treasure = 1

(***************************************************************************)
(* C18: the player's cell holding Player and a Monster lying on one of the *)
(* four rays at distance d >= 1 with no Pillar between them, the d-th of   *)
(* the doMonsterAttack calls made in a row (no move, no resize in between) *)
(* returns true; and if no Monster lies in line of sight at a distance     *)
(* below d on any ray, the d - 1 calls before it all return false.         *)
(***************************************************************************)
\* the monsters in line of sight when the row of calls started
C18_Seen ==
    {rc \in CellsHolding(chaseFrom.map, TILE_MONSTER) :
        LineOfSight(chaseFrom.map, chaseFrom.player, rc)}

\* this state ends the chaseCalls-th call of a row that started with the
\* player's cell holding Player
C18_Chasing ==
    /\ op = "monster"
    /\ chaseCalls >= 1
    /\ chaseFrom.map[PlayerCell(chaseFrom.player)] = TILE_PLAYER

C18_CaptureAtDistance ==
    C18_Chasing =>
        /\ (\E rc \in C18_Seen : Dist(chaseFrom.player, rc) = chaseCalls)
              => ret = TRUE
        /\ (C18_Seen # {} /\ \A rc \in C18_Seen : Dist(chaseFrom.player, rc) > chaseCalls)
              => ret = FALSE

\* a monster three cells from the player, none nearer: the third call, and
\* no call before it, captures the player
C18_Witness ==
    /\ C18_Chasing
    /\ chaseCalls = 3
    /\ \E rc \in C18_Seen : Dist(chaseFrom.player, rc) = 3
    /\ \A rc \in C18_Seen : Dist(chaseFrom.player, rc) >= 3
    /\ old.map[PlayerCell(player)] = TILE_PLAYER
    /\ ret = TRUE

(***************************************************************************)
(* C19: from a map whose only Player tile is at (player.row, player.col),  *)
(* over the doPlayerMove and doMonsterAttack calls of a sequence in which  *)
(* no doMonsterAttack call has returned true, the number of Monster tiles  *)
(* stays the same; and one doMonsterAttack call never increases the number *)
(* of Monster tiles nor changes a Pillar tile, even when it returns true.  *)
(***************************************************************************)
C19_Monsters(m) == Cardinality(CellsHolding(m, TILE_MONSTER))

C19_MonstersConserved ==
    /\ (/\ op \in {"move", "monster"}
        /\ ~everCaptured
        /\ CellsHolding(old.map, TILE_PLAYER) = {PlayerCell(old.player)})
          => C19_Monsters(map) = C19_Monsters(old.map)
    /\ op = "monster" =>
          /\ C19_Monsters(map) <= C19_Monsters(old.map)
          /\ CellsHolding(map, TILE_PILLAR) = CellsHolding(old.map, TILE_PILLAR)

\* two monsters in a row step toward the player and none is lost, in a call
\* that follows a move
C19_Witness ==
    /\ op = "monster"
    /\ steps = 2
    /\ ~everCaptured
    /\ C19_Monsters(map) = 2
    /\ map # old.map
    /\ \E a, b \in CellsHolding(old.map, TILE_MONSTER) :
          /\ SameRay(old.player, a, b)
          /\ a # b
          /\ LineOfSight(old.map, old.player, a)
          /\ LineOfSight(old.map, old.player, b)

====
